---- MODULE Spec2Model ----
(***************************************************************************)
(* Envelope / signer state machine of the e-sign server.                   *)
(*                                                                         *)
(* The multi-signer server (src/unnamed/part_000) is modelled: the         *)
(* envelope collection, the capability tokens, the creation handler and    *)
(* the three token endpoints (read by token, complete, cancel) plus the    *)
(* signing page.  Time is a clock of abstract ticks; one tick is one       *)
(* distinct value of `new Date()`.                                         *)
(*                                                                         *)
(* Spec      : requests are handled one after the other (each handler is   *)
(*             one step: findById, in-memory changes, save).               *)
(* SpecConc  : the handlers' awaits are visible: a request first loads     *)
(*             the envelope (findById) and later, in another step,         *)
(*             changes its in-memory copy and saves it, so that the loads  *)
(*             and saves of different requests interleave.                 *)
(* SpecMail  : the creation handler with its sendMail calls settling one   *)
(*             by one, in any order.                                       *)
(* SpecParse : the recipient parser applied to an emails field.            *)
(* SpecTok   : Spec with every kind of token signed with JWT_SECRET        *)
(*             (expiring, without index, index out of range).              *)
(* SpecSingle: the single-recipient server (src/server.js), requests       *)
(*             handled one after the other.                                *)
(***************************************************************************)
EXTENDS Integers, Sequences, FiniteSets, TLC

\* ---------------------------------------------------------------- bounds
\* the clock stops ticking at MaxTime
MaxTime == 2
\* longest recipient list a creation request carries
MaxRecipients == 2
\* requests in flight at the same time (SpecConc)
MaxInflight == 2

\* ------------------------------------------------------------ SIGN_EVENTS
PENDING == "PENDING"
SENT == "SENT"
DELIVERED == "DELIVERED"
COMPLETED == "COMPLETED"
VOIDED == "VOIDED"

\* a Date field that was never set (undefined)
NoDate == -1
\* decoded.i of a token that carries no index (undefined)
NoIndex == -1
\* a token without an exp claim
NoExp == -1
\* signedPdf: "" (schema default)
NoPdf == "none"

\* ---------------------------------------------------------------- tokens
\* expireTime = { expiresIn: "5m" }, in ticks of the model's clock
expireTime == 2

\* what jwt.sign(payload, JWT_SECRET, options) returns; options.expiresIn is
\* NoExp when no options are passed. iat is stamped by jwt.sign.
jwtSign(envId, email, i, t, expiresIn) ==
    [envId |-> envId, email |-> email, i |-> i, iat |-> t,
     exp |-> IF expiresIn = NoExp THEN NoExp ELSE t + expiresIn,
     sig |-> "server"]

\* faulty variant of MintToken: every link carries the index of the first signer
MintToken_FirstIndex(envId, email, i, t) == jwtSign(envId, email, 0, t, NoExp)

\* the token a creation request mints for signer i (0-based) of envelope envId
MintToken(envId, email, i, t) == jwtSign(envId, email, i, t, NoExp)

\* the empty string in a signedUrl field, and an absent :token parameter
NoToken == [envId |-> 0, email |-> "", i |-> NoIndex, iat |-> NoDate,
            exp |-> NoExp, sig |-> "none"]
\* a token that was not signed with JWT_SECRET
ForgedToken == [envId |-> 1, email |-> "a@x.com", i |-> 0, iat |-> 0,
                exp |-> NoExp, sig |-> "forged"]

\* faulty variant of jwtVerifyOk: verification with ignoreExpiration
jwtVerifyOk_IgnoreExpiration(tok, t) == tok.sig = "server"

\* jwt.verify(token, JWT_SECRET): the signature is the server's and the exp
\* claim, when there is one, is still in the future
jwtVerifyOk(tok, t) ==
    /\ tok.sig = "server"
    /\ (tok.exp # NoExp => t < tok.exp)

\* verifyJWT middleware: 401 or the request fields it sets
verifyJWT(tok, t) ==
    IF tok = NoToken THEN [code |-> 401, envId |-> 0, signerEmail |-> "", signerIndex |-> NoIndex]
    ELSE IF ~jwtVerifyOk(tok, t) THEN [code |-> 401, envId |-> 0, signerEmail |-> "", signerIndex |-> NoIndex]
    ELSE [code |-> 200, envId |-> tok.envId, signerEmail |-> tok.email, signerIndex |-> tok.i]

\* ------------------------------------------------------- recipient parser
\* One entry of the recipient list after splitting: the text before <...>
\* (name) and the address as typed (addr). The entries requests are built
\* from: a named address, the same address in another case, a second
\* address, and an entry that is no address.
RawEntries ==
    {[name |-> "Al", addr |-> "a@x.com"], [name |-> "", addr |-> "A@X.COM"],
     [name |-> "", addr |-> "b@x.com"], [name |-> "Bo", addr |-> "nope"]}

\* String.prototype.toLowerCase on the addresses the model uses
toLowerCase(a) == IF a = "A@X.COM" THEN "a@x.com" ELSE a
\* emailRegex.test: one @, no blank, a dot in the domain
emailRegexTest(a) == a \in {"a@x.com", "b@x.com", "A@X.COM"}

RECURSIVE parseFrom(_, _)
\* the loop over list: uniq keeps the first entry of each lowercased email
parseFrom(list, uniq) ==
    IF list = <<>> THEN uniq
    ELSE LET recEmail == toLowerCase(Head(list).addr)
             seen == \E k \in 1..Len(uniq) : uniq[k].email = recEmail
         IN IF ~emailRegexTest(recEmail) \/ seen
            THEN parseFrom(Tail(list), uniq)
            ELSE parseFrom(Tail(list),
                           Append(uniq, [email |-> recEmail, name |-> Head(list).name]))

\* faulty variant of parseRecipients: every valid entry is returned
parseRecipients_NoDedup(list) ==
    LET valid == SelectSeq(list, LAMBDA r : emailRegexTest(toLowerCase(r.addr)))
    IN [k \in 1..Len(valid) |-> [email |-> toLowerCase(valid[k].addr), name |-> valid[k].name]]

parseRecipients(list) == parseFrom(list, <<>>)

\* ------------------------------------------------------------- templates
\* fs.existsSync(templates/<type>.html): the template files on disk
existsSync(type) == type = "nda"
\* the values of the templates field after parsing
Selections == {<<>>, <<"nda">>, <<"ghost">>, <<"ghost", "nda">>}
\* req.body.name
BodyNames == {"Bob"}
\* req.file of a complete request: no file, a file multer rejects (not .pdf),
\* or the stored name multer gave an accepted upload
NoFile == "nofile"
NotPdf == "notpdf"
Uploads == {"f1.pdf", "f2.pdf"}

\* ------------------------------------------------------------------ state
VARIABLES
    store,      \* the envelope collection: envelope _id n is store[n]
    now,        \* the clock: the value new Date() returns
    last,       \* the request handled last and the response it got
    inflight,   \* SpecConc: the requests that overlap, loaded or done
    cancelled,  \* history: the _ids of the envelopes a cancel was answered 200 on
    mail,       \* SpecMail: the sendMail calls of the creation in progress
    parsed,     \* SpecParse: the emails field given to the parser and its result
    originals   \* SpecSingle: the rendered templates written to storage/originals

vars == <<store, now, last, inflight, cancelled, mail, parsed, originals>>

\* the record of a handled request: its endpoint, the response status (0: no
\* response was sent), the token presented, whether env.save() wrote, and
\* the upload (req.file.filename) a complete handler got past its checks with
Response(op, code, tok, saved, file) ==
    [op |-> op, code |-> code, tok |-> tok, saved |-> saved, file |-> file]

\* faulty variant of NewSigner: the status is left to the schema default
NewSigner_Pending(r, bodyName, t) ==
    [email |-> r.email,
     name |-> IF r.name # "" THEN r.name ELSE bodyName,
     status |-> PENDING,
     sentAt |-> t,
     deliveredAt |-> NoDate,
     completedAt |-> NoDate,
     signedUrl |-> NoToken]

\* a signer as the creation handler builds it
NewSigner(r, bodyName, t) ==
    [email |-> r.email,
     name |-> IF r.name # "" THEN r.name ELSE bodyName,
     status |-> SENT,
     sentAt |-> t,
     deliveredAt |-> NoDate,
     completedAt |-> NoDate,
     signedUrl |-> NoToken]

\* faulty variant of NewEnvelope: the links are minted but env.save() is
\* missing, so that the stored envelope is the one Envelope.create wrote
NewEnvelope_LinksNotSaved(envId, recipients, files, bodyName, t) ==
    [signers |-> [k \in 1..Len(recipients) |-> NewSigner(recipients[k], bodyName, t)],
     documentStatus |-> SENT,
     files |-> files,
     signedPdf |-> NoPdf,
     signedUrl |-> NoToken]

\* the envelope after Envelope.create, the per-signer links and env.save()
NewEnvelope(envId, recipients, files, bodyName, t) ==
    LET signers == [k \in 1..Len(recipients) |->
                       [NewSigner(recipients[k], bodyName, t) EXCEPT
                           !.signedUrl = MintToken(envId, recipients[k].email, k - 1, t)]]
    IN [signers |-> signers,
        documentStatus |-> SENT,
        files |-> files,
        signedPdf |-> NoPdf,
        signedUrl |-> IF Len(signers) > 0 THEN signers[1].signedUrl ELSE NoToken]

\* env.signers.findIndex(s => s.email === email), 0-based, -1 when none
findIndex(signers, email) ==
    IF \E k \in 1..Len(signers) : signers[k].email = email
    THEN (CHOOSE k \in 1..Len(signers) :
            /\ signers[k].email = email
            /\ \A j \in 1..(k - 1) : signers[j].email # email) - 1
    ELSE -1

\* faulty variant of resolveSigner: no lookup by email
resolveSigner_IndexOnly(doc, req) == req.signerIndex

\* the signer a verified request addresses (0-based)
resolveSigner(doc, req) ==
    IF req.signerIndex # NoIndex THEN req.signerIndex
    ELSE findIndex(doc.signers, req.signerEmail)

everyStatusIn(signers, S) == \A k \in 1..Len(signers) : signers[k].status \in S

\* faulty variants of shouldDeliver: every signer that is not DELIVERED /
\* every signer that is not COMPLETED or VOIDED is marked
shouldDeliver_NotDelivered(signer) == signer.status # DELIVERED
shouldDeliver_UpToDelivered(signer) == signer.status \in {SENT, DELIVERED}

\* GET by-token: "mark DELIVERED if not already"
shouldDeliver(signer) == signer.status = SENT

\* faulty variant of DeliverSigner: the envelope is bumped when some signer
\* (not every signer) is DELIVERED or COMPLETED
DeliverSigner_SomeDelivered(doc, idx, t) ==
    [doc EXCEPT !.signers[idx + 1].status = DELIVERED,
                !.signers[idx + 1].deliveredAt = t,
                !.documentStatus = DELIVERED]

\* faulty variant of DeliverSigner: every signer still SENT is marked
DeliverSigner_EverySent(doc, idx, t) ==
    LET s1 == [k \in 1..Len(doc.signers) |->
                  IF doc.signers[k].status = SENT
                  THEN [doc.signers[k] EXCEPT !.status = DELIVERED, !.deliveredAt = t]
                  ELSE doc.signers[k]]
    IN [doc EXCEPT !.signers = s1,
                   !.documentStatus =
                       IF everyStatusIn(s1, {DELIVERED, COMPLETED})
                       THEN DELIVERED ELSE @]

\* GET by-token, in memory: signer DELIVERED, deliveredAt, and the envelope
\* DELIVERED when every signer is DELIVERED or COMPLETED
DeliverSigner(doc, idx, t) ==
    LET s1 == [doc.signers EXCEPT ![idx + 1].status = DELIVERED,
                                   ![idx + 1].deliveredAt = t]
    IN [doc EXCEPT !.signers = s1,
                   !.documentStatus =
                       IF everyStatusIn(s1, {DELIVERED, COMPLETED})
                       THEN DELIVERED ELSE @]

\* faulty variant of CompleteSigner: the envelope is COMPLETED without
\* looking at the other signers (as the single-recipient server does)
CompleteSigner_AlwaysCompleted(doc, idx, t, file) ==
    [doc EXCEPT !.signers[idx + 1].status = COMPLETED,
                !.signers[idx + 1].completedAt = t,
                !.signedPdf = file,
                !.documentStatus = COMPLETED]

\* faulty variant of CompleteSigner: signedPdf is set by the first completion only
CompleteSigner_FirstPdfKept(doc, idx, t, file) ==
    LET s1 == [doc.signers EXCEPT ![idx + 1].status = COMPLETED,
                                   ![idx + 1].completedAt = t]
    IN [doc EXCEPT !.signers = s1,
                   !.signedPdf = IF @ = NoPdf THEN file ELSE @,
                   !.documentStatus =
                       IF everyStatusIn(s1, {COMPLETED}) THEN COMPLETED ELSE @]

\* complete, in memory: signer COMPLETED, completedAt, signedPdf, envelope
CompleteSigner(doc, idx, t, file) ==
    LET s1 == [doc.signers EXCEPT ![idx + 1].status = COMPLETED,
                                   ![idx + 1].completedAt = t]
    IN [doc EXCEPT !.signers = s1,
                   !.signedPdf = file,
                   !.documentStatus =
                       IF everyStatusIn(s1, {COMPLETED}) THEN COMPLETED ELSE @]

\* faulty variant of VoidEnvelope: a COMPLETED signer is left as it is
VoidEnvelope_KeepCompleted(doc) ==
    [doc EXCEPT !.documentStatus = VOIDED,
                !.signers = [k \in 1..Len(doc.signers) |->
                                IF doc.signers[k].status = COMPLETED THEN doc.signers[k]
                                ELSE [doc.signers[k] EXCEPT !.status = VOIDED]]]

\* faulty variant of VoidEnvelope: the cancel also withdraws the links
VoidEnvelope_LinksCleared(doc) ==
    [doc EXCEPT !.documentStatus = VOIDED,
                !.signedUrl = NoToken,
                !.signers = [k \in 1..Len(doc.signers) |->
                                [doc.signers[k] EXCEPT !.status = VOIDED,
                                                       !.signedUrl = NoToken]]]

\* faulty variant of VoidEnvelope: the signers are rebuilt without the
\* fields of s.toObject(), so that only the status is left
VoidEnvelope_StatusOnly(doc) ==
    [doc EXCEPT !.documentStatus = VOIDED,
                !.signers = [k \in 1..Len(doc.signers) |->
                                [email |-> "", name |-> "", status |-> VOIDED,
                                 sentAt |-> NoDate, deliveredAt |-> NoDate,
                                 completedAt |-> NoDate, signedUrl |-> NoToken]]]

\* cancel, in memory: envelope VOIDED, every signer VOIDED
VoidEnvelope(doc) ==
    [doc EXCEPT !.documentStatus = VOIDED,
                !.signers = [k \in 1..Len(doc.signers) |->
                                [doc.signers[k] EXCEPT !.status = VOIDED]]]

\* env.save(): the paths changed since the load are written to the stored
\* document cur. A save that writes below signers carries the version read
\* at load time and fails (VersionError) when a cancel replaced the array in
\* between (stale).
mergeSigner(cs, os, ms) ==
    [f \in DOMAIN ms |-> IF ms[f] # os[f] THEN ms[f] ELSE cs[f]]

save(cur, orig, mem, stale) ==
    IF mem.signers # orig.signers /\ stale
    THEN [ok |-> FALSE, doc |-> cur]
    ELSE [ok |-> TRUE,
          doc |-> [signers |-> [k \in 1..Len(cur.signers) |->
                                   mergeSigner(cur.signers[k], orig.signers[k], mem.signers[k])],
                   documentStatus |-> IF mem.documentStatus # orig.documentStatus
                                      THEN mem.documentStatus ELSE cur.documentStatus,
                   files |-> cur.files,
                   signedPdf |-> IF mem.signedPdf # orig.signedPdf
                                 THEN mem.signedPdf ELSE cur.signedPdf,
                   signedUrl |-> cur.signedUrl]]

\* ---------------------------------------------------------- the handlers
\* The part of each token endpoint after findById, given the document the
\* request loaded (orig), the document stored now (cur) and whether the
\* loaded version is stale. Result: the response status, the document
\* stored afterwards, whether save() wrote, whether the write replaced the
\* signers array (which increments the document version).
\* Rejected: save() rejected in a handler without try/catch; the handler
\* sends nothing.
Rejected == 0

Outcome(code, doc, saved, bumped) ==
    [code |-> code, doc |-> doc, saved |-> saved, bumped |-> bumped]

\* GET /api/envelopes/by-token/:token
readByToken(req, orig, cur, stale, t) ==
    LET idx == resolveSigner(orig, req)
    IN IF idx < 0 \/ idx >= Len(orig.signers) THEN Outcome(400, cur, FALSE, FALSE)
       ELSE IF shouldDeliver(orig.signers[idx + 1])
       THEN LET s == save(cur, orig, DeliverSigner(orig, idx, t), stale)
            IN Outcome(IF s.ok THEN 200 ELSE Rejected, s.doc, s.ok, FALSE)
       ELSE Outcome(200, cur, FALSE, FALSE)

\* POST /api/envelopes/:token/complete (req.file is an accepted upload)
complete(req, file, orig, cur, stale, t) ==
    LET idx == resolveSigner(orig, req)
    IN IF idx < 0 \/ idx >= Len(orig.signers) THEN Outcome(400, cur, FALSE, FALSE)
       ELSE LET s == save(cur, orig, CompleteSigner(orig, idx, t, file), stale)
            IN Outcome(IF s.ok THEN 200 ELSE 500, s.doc, s.ok, FALSE)

\* POST /api/envelopes/:token/cancel
cancel(orig, cur, stale) ==
    LET mem == VoidEnvelope(orig)
        s == save(cur, orig, mem, stale)
    IN Outcome(IF s.ok THEN 200 ELSE Rejected, s.doc, s.ok,
               s.ok /\ mem.signers # orig.signers)

handle(op, req, file, orig, cur, stale, t) ==
    CASE op = "read" -> readByToken(req, orig, cur, stale, t)
      [] op = "complete" -> complete(req, file, orig, cur, stale, t)
      [] op = "cancel" -> cancel(orig, cur, stale)

\* The part of each token endpoint before findById returns a document: the
\* status it answers with, or 200 when the handler goes on.
\* verifyJWT, then multer (complete only), then the handler's own checks.
admit(op, tok, file, t, st) ==
    LET req == verifyJWT(tok, t)
    IN IF req.code # 200 THEN 401
       ELSE IF op = "complete" /\ file = NotPdf THEN 500
       ELSE IF op = "complete" /\ file = NoFile THEN 400
       ELSE IF ~(req.envId \in 1..Len(st)) THEN 404
       ELSE 200

\* the status a client sees: when save() rejects outside a try/catch, no
\* response (0) or, where the framework forwards the rejection, the error
\* handler's 500
StatusOf(code) == IF code = Rejected THEN {0, 500} ELSE {code}

\* the tokens a client can present
Tokens ==
    {NoToken, ForgedToken} \cup
    UNION {{store[e].signers[k].signedUrl : k \in 1..Len(store[e].signers)} :
              e \in 1..Len(store)}

\* the stored name multer gives the next accepted upload: time and a random
\* id make it differ from the name the envelope refers to. The names are
\* opaque, so the model hands them out in a fixed order.
uniqueName ==
    IF \E e \in 1..Len(store) : store[e].signedPdf = "f1.pdf" THEN {"f2.pdf"} ELSE {"f1.pdf"}

\* ---------------------------------------------------------------- actions
RecipientLists == UNION {[1..n -> RawEntries] : n \in 0..MaxRecipients}

Init ==
    /\ store = <<>>
    /\ now = 0
    /\ last = Response("none", 0, NoToken, FALSE, NoFile)
    /\ inflight = <<>>
    /\ cancelled = {}
    /\ mail = <<>>
    /\ parsed = [list |-> <<>>, recipients |-> <<>>, done |-> FALSE]
    /\ originals = <<>>

\* time passes
Tick ==
    /\ now < MaxTime
    /\ now' = now + 1
    /\ UNCHANGED <<store, last, inflight, cancelled, mail, parsed, originals>>

\* faulty variant of Create: an empty file list is answered like the other
\* rejections
Create_NoFilesBadRequest(selected, emails, bodyName, mailFails) ==
    LET recipients == parseRecipients(emails)
        files == SelectSeq(selected, existsSync)
        envId == Len(store) + 1
    IN /\ store = <<>>
       /\ IF selected = <<>> \/ recipients = <<>> \/ files = <<>>
          THEN /\ last' = Response("create", 400, NoToken, FALSE, NoFile)
               /\ UNCHANGED store
          ELSE /\ store' = Append(store, NewEnvelope(envId, recipients, files, bodyName, now))
               /\ last' = Response("create", IF mailFails THEN 500 ELSE 200, NoToken, TRUE, NoFile)
       /\ UNCHANGED <<now, inflight, cancelled, mail, parsed, originals>>

\* POST /api/generate-template. mailFails: some sendMail call throws.
\* The model follows the first envelope of the collection.
Create(selected, emails, bodyName, mailFails) ==
    LET recipients == parseRecipients(emails)
        files == SelectSeq(selected, existsSync)
        envId == Len(store) + 1
    IN /\ store = <<>>
       /\ IF selected = <<>> \/ recipients = <<>>
          THEN /\ last' = Response("create", 400, NoToken, FALSE, NoFile)
               /\ UNCHANGED store
          ELSE IF files = <<>>
          THEN /\ last' = Response("create", 404, NoToken, FALSE, NoFile)
               /\ UNCHANGED store
          ELSE /\ store' = Append(store, NewEnvelope(envId, recipients, files, bodyName, now))
               /\ last' = Response("create", IF mailFails THEN 500 ELSE 200, NoToken, TRUE, NoFile)
       /\ UNCHANGED <<now, inflight, cancelled, mail, parsed, originals>>

\* a token endpoint handled from its first to its last line in one step
Request(op, tok, file) ==
    LET a == admit(op, tok, file, now, store)
        req == verifyJWT(tok, now)
    IN /\ IF a # 200
          THEN /\ last' = Response(op, a, tok, FALSE, NoFile)
               /\ UNCHANGED <<store, cancelled>>
          ELSE LET doc == store[req.envId]
                   out == handle(op, req, file, doc, doc, FALSE, now)
               IN /\ store' = [store EXCEPT ![req.envId] = out.doc]
                  /\ \E c \in StatusOf(out.code) : last' = Response(op, c, tok, out.saved, file)
                  /\ cancelled' = IF op = "cancel" /\ out.code = 200
                                  THEN cancelled \cup {req.envId} ELSE cancelled
       /\ UNCHANGED <<now, inflight, mail, parsed, originals>>

ReadByToken(tok) == Request("read", tok, NoFile)
Complete(tok, file) == Request("complete", tok, file)
Cancel(tok) == Request("cancel", tok, NoFile)

\* GET /sign/:token
SignPage(tok) ==
    /\ last' = Response("sign", IF jwtVerifyOk(tok, now) THEN 200 ELSE 401, tok, FALSE, NoFile)
    /\ UNCHANGED <<store, now, inflight, cancelled, mail, parsed, originals>>

Next ==
    \/ Tick
    \/ \E selected \in Selections, emails \in RecipientLists,
          bodyName \in BodyNames, mailFails \in BOOLEAN :
          Create(selected, emails, bodyName, mailFails)
    \/ \E tok \in Tokens : ReadByToken(tok)
    \/ \E tok \in Tokens, file \in uniqueName \cup {NoFile, NotPdf} : Complete(tok, file)
    \/ \E tok \in Tokens : Cancel(tok)
    \/ \E tok \in Tokens : SignPage(tok)

Spec == Init /\ [][Next]_vars

\* ------------------------------------------------- overlapping requests
\* a request reaches `await Envelope.findById` and gets its document; a
\* request answered before that never overlaps with another
Begin(op, tok, file) ==
    LET a == admit(op, tok, file, now, store)
        req == verifyJWT(tok, now)
    IN /\ Len(inflight) < MaxInflight
       /\ IF a # 200
          THEN /\ last' = Response(op, a, tok, FALSE, NoFile)
               /\ UNCHANGED inflight
          ELSE /\ inflight' = Append(inflight,
                                     [op |-> op, tok |-> tok, req |-> req, file |-> file,
                                      doc |-> store[req.envId], stale |-> FALSE,
                                      pc |-> "loaded", code |-> 0])
               /\ UNCHANGED last
       /\ UNCHANGED <<store, now, cancelled, mail, parsed, originals>>

\* the loaded request at position k runs to its response: it changes the
\* document it loaded and saves. A save that replaces the signers array
\* makes the version the other loaded requests hold stale.
Finish(k) ==
    LET r == inflight[k]
        req == r.req
        out == handle(r.op, req, r.file, r.doc, store[req.envId], r.stale, now)
    IN /\ r.pc = "loaded"
       /\ store' = [store EXCEPT ![req.envId] = out.doc]
       /\ \E c \in StatusOf(out.code) :
            /\ last' = Response(r.op, c, r.tok, out.saved, r.file)
            /\ inflight' = [j \in 1..Len(inflight) |->
                              IF j = k THEN [r EXCEPT !.pc = "done", !.code = c]
                              ELSE [inflight[j] EXCEPT !.stale = @ \/ out.bumped]]
       /\ cancelled' = IF r.op = "cancel" /\ out.code = 200
                       THEN cancelled \cup {req.envId} ELSE cancelled
       /\ UNCHANGED <<now, mail, parsed, originals>>

NextConc ==
    \/ Tick
    \/ \E selected \in Selections, emails \in RecipientLists,
          bodyName \in BodyNames, mailFails \in BOOLEAN :
          Create(selected, emails, bodyName, mailFails)
    \/ \E op \in {"read", "complete", "cancel"}, tok \in Tokens,
          file \in uniqueName \cup {NoFile, NotPdf} :
          /\ (op # "complete" => file = NoFile)
          /\ Begin(op, tok, file)
    \/ \E k \in 1..Len(inflight) : Finish(k)

SpecConc == Init /\ [][NextConc]_vars

\* ------------------------------------------------ notification e-mails
\* faulty variant of startSends: the sends are awaited one after the other,
\* only the first is started
startSends_FirstOnly(signerResults) ==
    [k \in 1..(IF signerResults = <<>> THEN 0 ELSE 1) |->
        [to |-> signerResults[k].email, state |-> "pending", order |-> 0]]

\* signerResults.map(async ...): every callback runs up to its await, that
\* is, calls sendMail, before Promise.all is entered; order is the position
\* of the send among the settled ones (0: not settled)
startSends(signerResults) ==
    [k \in 1..Len(signerResults) |->
        [to |-> signerResults[k].email, state |-> "pending", order |-> 0]]

\* POST /api/generate-template up to `await Promise.all`: the envelope is
\* stored, the links are saved, the sends are started, no response yet
CreateBegin(selected, emails, bodyName) ==
    LET recipients == parseRecipients(emails)
        files == SelectSeq(selected, existsSync)
        envId == Len(store) + 1
        env == NewEnvelope(envId, recipients, files, bodyName, now)
    IN /\ store = <<>>
       /\ IF selected = <<>> \/ recipients = <<>>
          THEN /\ last' = Response("create", 400, NoToken, FALSE, NoFile)
               /\ UNCHANGED <<store, mail>>
          ELSE IF files = <<>>
          THEN /\ last' = Response("create", 404, NoToken, FALSE, NoFile)
               /\ UNCHANGED <<store, mail>>
          ELSE /\ store' = Append(store, env)
               /\ mail' = startSends(env.signers)
               /\ last' = Response("create", 0, NoToken, TRUE, NoFile)
       /\ UNCHANGED <<now, inflight, cancelled, parsed, originals>>

\* the sendMail call for signer k settles. Promise.all rejects with the
\* first failure (catch: 500) and resolves when every send has succeeded
\* (res.json); the other sends go on after the response.
Settle(k, ok) ==
    LET settled == {j \in 1..Len(mail) : mail[j].state # "pending"}
        m1 == [mail EXCEPT ![k].state = IF ok THEN "ok" ELSE "failed",
                           ![k].order = Cardinality(settled) + 1]
    IN /\ mail[k].state = "pending"
       /\ mail' = m1
       /\ last' = IF last.code # 0 THEN last
                  ELSE IF ~ok THEN [last EXCEPT !.code = 500]
                  ELSE IF \A j \in 1..Len(m1) : m1[j].state = "ok"
                       THEN [last EXCEPT !.code = 200]
                  ELSE last
       /\ UNCHANGED <<store, now, inflight, cancelled, parsed, originals>>

NextMail ==
    \/ Tick
    \/ \E selected \in Selections, emails \in RecipientLists, bodyName \in BodyNames :
          CreateBegin(selected, emails, bodyName)
    \/ \E k \in 1..Len(mail), ok \in BOOLEAN : Settle(k, ok)

SpecMail == Init /\ [][NextMail]_vars

\* ------------------------------------------------------ recipient parser
\* longest emails field given to the parser on its own
MaxEntries == 3
\* the entries of an emails field: "Name <email>" or a plain email
ParserEntries == [name : {"", "Al", "Bo"}, addr : {"a@x.com", "A@X.COM", "b@x.com", "nope"}]
ParserInputs == UNION {[1..n -> ParserEntries] : n \in 0..MaxEntries}

InitParse ==
    /\ store = <<>>
    /\ now = 0
    /\ last = Response("none", 0, NoToken, FALSE, NoFile)
    /\ inflight = <<>>
    /\ cancelled = {}
    /\ mail = <<>>
    /\ originals = <<>>
    /\ parsed \in {[list |-> l, recipients |-> <<>>, done |-> FALSE] : l \in ParserInputs}

\* const recipients = parseRecipients(emails)
Parse ==
    /\ ~parsed.done
    /\ parsed' = [parsed EXCEPT !.recipients = parseRecipients(parsed.list), !.done = TRUE]
    /\ UNCHANGED <<store, now, last, inflight, cancelled, mail, originals>>

NextParse == Parse

SpecParse == InitParse /\ [][NextParse]_vars

\* ----------------------------------------------- other signed tokens
\* a link of the single-recipient server: payload { _id }, expiring
LegacyToken == jwtSign(1, "", NoIndex, 0, expireTime)
\* a link whose payload has no index: the signer is found by the email
EmailToken == jwtSign(1, "b@x.com", NoIndex, 0, NoExp)
\* a link whose index is beyond the signer list of the envelope it names
OutOfRangeToken == jwtSign(1, "a@x.com", MaxRecipients, 0, NoExp)
SignedTokens == {LegacyToken, EmailToken, OutOfRangeToken}

\* the emails fields SpecTok creates envelopes from: plain emails
PlainLists == {l \in RecipientLists : \A k \in 1..Len(l) : l[k].name = ""}

NextTok ==
    \/ Tick
    \/ \E selected \in Selections, emails \in PlainLists, bodyName \in BodyNames :
          Create(selected, emails, bodyName, FALSE)
    \/ \E tok \in Tokens \cup SignedTokens : ReadByToken(tok)
    \/ \E tok \in Tokens \cup SignedTokens, file \in uniqueName \cup {NoFile, NotPdf} :
          Complete(tok, file)
    \/ \E tok \in Tokens \cup SignedTokens : Cancel(tok)

SpecTok == Init /\ [][NextTok]_vars

\* ------------------------------------ single-recipient server (server.js)
\* rendered templates the model lets accumulate in storage/originals
MaxOriginals == 3

\* verifyJWT of server.js: req._id = decoded._id, which only the payload
\* { _id } of this server's links has (0: undefined)
verifyJWTSingle(tok, t) ==
    IF tok = NoToken \/ ~jwtVerifyOk(tok, t) THEN [code |-> 401, _id |-> 0]
    ELSE [code |-> 200, _id |-> IF tok.email = "" /\ tok.i = NoIndex THEN tok.envId ELSE 0]

\* the files array after the loop over selected: files.push is commented
\* out, nothing is ever appended
pushedFiles(rendered) == <<>>

\* the envelope Envelope.create stores
NewEnvelopeSingle(files, bodyName) ==
    [recipientEmail |-> "demo@user.com",
     recipientName |-> bodyName,
     documentStatus |-> SENT,
     files |-> files,
     signedPdf |-> NoPdf]

\* POST /api/generate-template
CreateSingle(selected, bodyName) ==
    LET rendered == SelectSeq(selected, existsSync)
        files == pushedFiles(rendered)
        envId == Len(store) + 1
    IN /\ Len(originals) + Len(rendered) <= MaxOriginals
       /\ IF selected = <<>>
          THEN /\ last' = Response("create", 400, NoToken, FALSE, NoFile)
               /\ UNCHANGED <<store, originals>>
          ELSE /\ originals' = originals \o [k \in 1..Len(rendered) |->
                                                [type |-> rendered[k], at |-> now]]
               /\ IF files = <<>>
                  THEN /\ last' = Response("create", 404, NoToken, FALSE, NoFile)
                       /\ UNCHANGED store
                  ELSE /\ store' = Append(store, NewEnvelopeSingle(files, bodyName))
                       /\ last' = Response("create", 200,
                                            jwtSign(envId, "", NoIndex, now, expireTime),
                                            TRUE, NoFile)
       /\ UNCHANGED <<now, inflight, cancelled, mail, parsed>>

\* the three token routes of server.js: verifyJWT, the upload filter (no
\* error handler: Express answers 500), findById, the change and save
RequestSingle(op, tok, file) ==
    LET req == verifyJWTSingle(tok, now)
        found == req._id \in 1..Len(store)
    IN /\ IF req.code = 401
          THEN /\ last' = Response(op, 401, tok, FALSE, NoFile)
               /\ UNCHANGED store
          ELSE IF op = "complete" /\ file = NotPdf
          THEN /\ last' = Response(op, 500, tok, FALSE, NoFile)
               /\ UNCHANGED store
          ELSE IF ~found
          THEN /\ last' = Response(op, 404, tok, FALSE, NoFile)
               /\ UNCHANGED store
          ELSE IF op = "read"
          THEN /\ last' = Response(op, 200, tok, FALSE, NoFile)
               /\ UNCHANGED store
          ELSE IF op = "complete" /\ file = NoFile
          THEN /\ last' = Response(op, 500, tok, FALSE, NoFile)
               /\ UNCHANGED store
          ELSE IF op = "complete"
          THEN /\ store' = [store EXCEPT ![req._id].signedPdf = file,
                                         ![req._id].documentStatus = COMPLETED]
               /\ last' = Response(op, 200, tok, TRUE, file)
          ELSE /\ store' = [store EXCEPT ![req._id].documentStatus = VOIDED]
               /\ last' = Response(op, 200, tok, TRUE, NoFile)
       /\ UNCHANGED <<now, inflight, cancelled, mail, parsed, originals>>

\* the tokens a client of server.js can present: none, a forged one, a link
\* of this server, a link of the multi-signer server (same JWT_SECRET)
TokensSingle == {NoToken, ForgedToken, LegacyToken, MintToken(1, "a@x.com", 0, 0)}

NextSingle ==
    \/ Tick
    \/ \E selected \in Selections, bodyName \in BodyNames : CreateSingle(selected, bodyName)
    \/ \E tok \in TokensSingle : RequestSingle("read", tok, NoFile)
    \/ \E tok \in TokensSingle, file \in Uploads \cup {NoFile, NotPdf} :
          RequestSingle("complete", tok, file)
    \/ \E tok \in TokensSingle : RequestSingle("cancel", tok, NoFile)
    \/ \E tok \in TokensSingle : SignPage(tok)

SpecSingle == Init /\ [][NextSingle]_vars

\* ================================================================ claims
Envelopes == 1..Len(store)
Signers(e) == 1..Len(store[e].signers)
TokenOps == {"read", "complete", "cancel", "sign"}

\* the aggregate of the signer statuses, cancel aside (spec 4.3)
Aggregate(signers) ==
    IF everyStatusIn(signers, {COMPLETED}) THEN COMPLETED
    ELSE IF everyStatusIn(signers, {DELIVERED, COMPLETED}) THEN DELIVERED
    ELSE SENT

\* the signer (1-based) the request handled last addressed
Addressed == resolveSigner(store[last.tok.envId], verifyJWT(last.tok, last.tok.iat)) + 1

\* position of a status in PENDING < SENT < DELIVERED < COMPLETED
Rank(status) ==
    CASE status = PENDING -> 0
      [] status = SENT -> 1
      [] status = DELIVERED -> 2
      [] status = COMPLETED -> 3
      [] OTHER -> -1

\* C1: in every state reached by sequential create / read / complete /
\* cancel calls, documentStatus is the aggregate of the signer statuses:
\* VOIDED if a cancel has fired, else COMPLETED if all signers are
\* COMPLETED, else DELIVERED if all are DELIVERED or COMPLETED, else SENT.
C1_StatusIsAggregate ==
    \A e \in Envelopes :
        store[e].documentStatus =
            IF e \in cancelled THEN VOIDED ELSE Aggregate(store[e].signers)

\* C2: in every state reached by sequential calls, documentStatus is
\* COMPLETED if and only if every signer is COMPLETED.
C2_CompletedIffAllCompleted ==
    \A e \in Envelopes :
        (store[e].documentStatus = COMPLETED) <=>
            everyStatusIn(store[e].signers, {COMPLETED})

\* both signers of a two-signer envelope have completed, the second last
C2_Witness ==
    \E e \in Envelopes :
        /\ Len(store[e].signers) = 2
        /\ store[e].documentStatus = COMPLETED
        /\ last.op = "complete" /\ last.code = 200
        /\ store[e].signers[1].completedAt < store[e].signers[2].completedAt

\* C3: after two distinct signers of a two-signer envelope complete in
\* overlapping requests (both answered 200, no cancel), both signers are
\* COMPLETED and documentStatus is COMPLETED, as after either serial order.
C3_ConcurrentCompletions ==
    (/\ Len(inflight) = 2
     /\ \A j \in 1..2 : /\ inflight[j].op = "complete"
                        /\ inflight[j].pc = "done"
                        /\ inflight[j].code = 200
     /\ inflight[1].req.envId = inflight[2].req.envId
     /\ inflight[1].req.signerIndex # inflight[2].req.signerIndex
     /\ Len(store[inflight[1].req.envId].signers) = 2)
    => /\ everyStatusIn(store[inflight[1].req.envId].signers, {COMPLETED})
       /\ store[inflight[1].req.envId].documentStatus = COMPLETED

\* C4: a cancel answered 200 leaves every signer VOIDED and documentStatus
\* VOIDED, whatever the signers' statuses were.
C4_CancelVoidsAll ==
    (last.op = "cancel" /\ last.code = 200) =>
        /\ store[last.tok.envId].documentStatus = VOIDED
        /\ everyStatusIn(store[last.tok.envId].signers, {VOIDED})

\* a cancel of an envelope with one signer that had completed and one that
\* had neither opened nor completed
C4_Witness ==
    /\ last.op = "cancel" /\ last.code = 200
    /\ \E j, k \in Signers(last.tok.envId) :
          /\ store[last.tok.envId].signers[j].completedAt # NoDate
          /\ store[last.tok.envId].signers[k].completedAt = NoDate
          /\ store[last.tok.envId].signers[k].deliveredAt = NoDate

\* C5: once an envelope has been cancelled, every signer and the envelope
\* stay VOIDED, whatever is presented afterwards.
C5_CancelledStaysVoided ==
    \A e \in cancelled :
        /\ store[e].documentStatus = VOIDED
        /\ everyStatusIn(store[e].signers, {VOIDED})

\* C6: a signer that is not VOIDED never steps backward in
\* PENDING < SENT < DELIVERED < COMPLETED; the only other step it takes is
\* to VOIDED, in a cancel that voids every signer of the envelope.
C6_NoBackwardStep ==
    [][\A e \in Envelopes : \A k \in Signers(e) :
          store[e].signers[k].status # VOIDED =>
              \/ /\ store'[e].signers[k].status # VOIDED
                 /\ Rank(store'[e].signers[k].status) >= Rank(store[e].signers[k].status)
              \/ /\ last'.op = "cancel"
                 /\ everyStatusIn(store'[e].signers, {VOIDED})]_vars

\* a read by a signer that has completed: the signer stays COMPLETED
C6_Witness ==
    /\ last.op = "read" /\ last.code = 200
    /\ store[last.tok.envId].signers[Addressed].status = COMPLETED

\* C7: sentAt, deliveredAt and completedAt are written at most once: a
\* timestamp that is set is not changed by any later call.
C7_TimestampsWrittenOnce ==
    [][\A e \in Envelopes : \A k \in Signers(e) :
          /\ store[e].signers[k].sentAt # NoDate =>
                store'[e].signers[k].sentAt = store[e].signers[k].sentAt
          /\ store[e].signers[k].deliveredAt # NoDate =>
                store'[e].signers[k].deliveredAt = store[e].signers[k].deliveredAt
          /\ store[e].signers[k].completedAt # NoDate =>
                store'[e].signers[k].completedAt = store[e].signers[k].completedAt]_vars

\* C8: a read by a signer whose status is not SENT leaves the whole
\* envelope collection unchanged.
C8_SecondOpenIsNoOp ==
    [][(/\ last'.op = "read" /\ last'.code = 200
        /\ LET e == last'.tok.envId
               k == resolveSigner(store[e], verifyJWT(last'.tok, last'.tok.iat)) + 1
           IN store[e].signers[k].status # SENT)
       => store' = store]_vars

\* a read, later than the first one, by a signer that is DELIVERED: nothing
\* was saved
C8_Witness ==
    /\ last.op = "read" /\ last.code = 200 /\ ~last.saved
    /\ store[last.tok.envId].signers[Addressed].status = DELIVERED
    /\ store[last.tok.envId].signers[Addressed].deliveredAt < now

\* C9: without a cancel, when every signer that has completed had opened
\* the link before, documentStatus is SENT while some signer is SENT,
\* DELIVERED from the step the last SENT signer opens, and COMPLETED from
\* the step the last signer completes.
C9_StatusFollowsSigners ==
    \A e \in Envelopes :
        (/\ e \notin cancelled
         /\ \A k \in Signers(e) :
               store[e].signers[k].completedAt # NoDate =>
                   store[e].signers[k].deliveredAt # NoDate)
        => store[e].documentStatus = Aggregate(store[e].signers)

\* two signers, both opened and then completed, no cancel
C9_Witness ==
    \E e \in Envelopes :
        /\ e \notin cancelled
        /\ Len(store[e].signers) = 2
        /\ \A k \in Signers(e) : /\ store[e].signers[k].deliveredAt # NoDate
                                 /\ store[e].signers[k].completedAt # NoDate
        /\ store[e].documentStatus = COMPLETED

\* C10: a token the server minted, presented to read, complete, cancel or
\* the signing page once its expiry window has passed, is answered 401.
C10_ExpiredTokenRejected ==
    [][(/\ now' = now
        /\ last'.op \in TokenOps
        /\ last'.tok.sig = "server"
        /\ now >= last'.tok.iat + expireTime)
       => last'.code = 401]_vars

\* C11: when sendMail fails for some signer the creation request is still
\* answered with success: a creation that persisted its envelope is answered
\* 200, never 500.
C11_MailFailureStillSucceeds ==
    (last.op = "create" /\ last.saved) => last.code = 200

\* C12: after a creation whose notification failed the envelope is still in
\* the store, documentStatus SENT, every signer SENT with its link set, and
\* each link is accepted by the read, complete and cancel endpoints.
C12_FailedMailKeepsEnvelope ==
    (last.op = "create" /\ last.code = 500 /\ last.saved) =>
        /\ Len(store) = 1
        /\ \A e \in Envelopes :
             /\ store[e].documentStatus = SENT
             /\ store[e].signers # <<>>
             /\ \A k \in Signers(e) :
                  LET link == store[e].signers[k].signedUrl
                      works(op, file) ==
                          /\ admit(op, link, file, now, store) = 200
                          /\ handle(op, verifyJWT(link, now), file,
                                    store[e], store[e], FALSE, now).code = 200
                  IN /\ store[e].signers[k].status = SENT
                     /\ link # NoToken
                     /\ works("read", NoFile)
                     /\ works("cancel", NoFile)
                     /\ \A file \in Uploads : works("complete", file)

\* a two-signer creation whose notification failed, some time ago
C12_Witness ==
    /\ last.op = "create" /\ last.code = 500 /\ last.saved
    /\ Len(store) = 1 /\ Len(store[1].signers) = 2
    /\ now > store[1].signers[1].sentAt

\* C15: a successful creation stores exactly one new envelope, with files and
\* signers, every signer SENT with sentAt the creation time, documentStatus
\* SENT; a rejected creation (400, 404) stores nothing.
C15_CreationStoresOne ==
    [][(last'.op = "create" /\ now' = now) =>
          IF last'.code = 200
          THEN /\ Len(store') = Len(store) + 1
               /\ SubSeq(store', 1, Len(store)) = store
               /\ LET env == store'[Len(store')]
                  IN /\ env.signers # <<>>
                     /\ env.files # <<>>
                     /\ env.documentStatus = SENT
                     /\ \A k \in 1..Len(env.signers) :
                          /\ env.signers[k].status = SENT
                          /\ env.signers[k].sentAt = now
          ELSE last'.code \in {400, 404} => store' = store]_vars

\* a successful two-signer creation, after time had passed
C15_Witness ==
    /\ last.op = "create" /\ last.code = 200
    /\ Len(store) = 1 /\ Len(store[1].signers) = 2
    /\ store[1].signers[2].sentAt = now /\ now > 0

\* C16: the token of signer i carries (envelope id, that signer's email, i);
\* the tokens of one envelope are pairwise distinct; verifying signer i's
\* token yields index i and the email stored at signers[i].
C16_TokenScopedToSigner ==
    \A e \in Envelopes : \A k \in Signers(e) :
        LET tok == store[e].signers[k].signedUrl
            req == verifyJWT(tok, now)
        IN /\ tok.envId = e /\ tok.email = store[e].signers[k].email /\ tok.i = k - 1
           /\ \A j \in Signers(e) : j # k => store[e].signers[j].signedUrl # tok
           /\ req.code = 200 /\ req.envId = e
           /\ req.signerIndex = k - 1
           /\ req.signerEmail = store[e].signers[k].email
           /\ resolveSigner(store[e], req) = k - 1

\* an envelope with two signers, its links verified after the clock ticked
C16_Witness ==
    \E e \in Envelopes :
        /\ Len(store[e].signers) = 2
        /\ now > store[e].signers[2].signedUrl.iat
        /\ verifyJWT(store[e].signers[2].signedUrl, now).signerIndex = 1

\* C17: no step changes the number of envelopes' signers or the email held
\* at an index.
C17_SignerListStable ==
    [][\A e \in Envelopes :
          /\ e \in 1..Len(store')
          /\ Len(store'[e].signers) = Len(store[e].signers)
          /\ \A k \in Signers(e) : store'[e].signers[k].email = store[e].signers[k].email]_vars

\* a two-signer envelope that was opened, completed and then cancelled
C17_Witness ==
    /\ last.op = "cancel" /\ last.code = 200
    /\ \E e \in Envelopes :
         /\ Len(store[e].signers) = 2
         /\ store[e].signers[1].deliveredAt # NoDate
         /\ store[e].signers[2].completedAt # NoDate
         /\ store[e].signers[2].email = "b@x.com"

\* C18: after a complete answered 200 the addressed signer is COMPLETED and
\* signedPdf is the file of that call, also when the signer was COMPLETED
\* before the call.
C18_CompleteOverwritesPdf ==
    (last.op = "complete" /\ last.code = 200) =>
        /\ store[last.tok.envId].signers[Addressed].status = COMPLETED
        /\ store[last.tok.envId].signedPdf = last.file

\* the second upload for the only signer of an envelope that was never
\* cancelled: the signer was COMPLETED, with the first upload, before the call
C18_Witness ==
    /\ last.op = "complete" /\ last.code = 200 /\ last.file = "f2.pdf"
    /\ cancelled = {}
    /\ Len(store[last.tok.envId].signers) = 1
    /\ store[last.tok.envId].signedPdf = "f2.pdf"

\* C13: every signer of the created envelope has exactly one send started
\* for it, whichever sends have failed or succeeded so far.
C13_OneSendPerSigner ==
    \A e \in Envelopes :
        /\ Len(mail) = Len(store[e].signers)
        /\ \A k \in Signers(e) : mail[k].to = store[e].signers[k].email

\* the first send to settle failed (the request was answered 500) and
\* another signer's send went through after it
C13_Witness ==
    /\ last.op = "create" /\ last.code = 500
    /\ \E j, k \in 1..Len(mail) :
         /\ mail[j].state = "failed" /\ mail[j].order = 1
         /\ mail[k].state = "ok" /\ mail[k].order = 2

\* a token jwt.verify does not accept at time t: none, not signed with the
\* server's secret, or past its exp claim
Unauthentic(tok, t) == tok.sig # "server" \/ (tok.exp # NoExp /\ t >= tok.exp)

\* C14: read, complete and cancel answer 401 to a missing, wrongly signed or
\* expired token and leave the store as it is.
C14_BadTokenTouchesNothing ==
    [][(now' = now /\ last'.op \in {"read", "complete", "cancel"}
          /\ Unauthentic(last'.tok, now)) =>
          (last'.code = 401 /\ store' = store)]_vars

\* a cancel with an expired token, on an envelope in the store
C14_Witness ==
    /\ last.op = "cancel" /\ last.tok = LegacyToken /\ last.code = 401
    /\ now >= LegacyToken.exp
    /\ Len(store) = 1 /\ store[1].documentStatus # VOIDED

\* C19: the parser returns one entry per distinct valid email (compared in
\* lower case), emails lowercased and pairwise distinct, each with the name
\* of the first entry carrying that email.
C19_ParserDeduplicates ==
    parsed.done =>
        LET list == parsed.list
            out == parsed.recipients
            lower(k) == toLowerCase(list[k].addr)
            isValid(k) == emailRegexTest(lower(k))
            occurrences(email) == {k \in 1..Len(list) : isValid(k) /\ lower(k) = email}
            first(email) == CHOOSE k \in occurrences(email) :
                                \A j \in occurrences(email) : k <= j
        IN /\ Len(out) = Cardinality({lower(k) : k \in {j \in 1..Len(list) : isValid(j)}})
           /\ \A i \in 1..Len(out) :
                /\ out[i].email = toLowerCase(out[i].email)
                /\ occurrences(out[i].email) # {}
                /\ out[i].name = list[first(out[i].email)].name
                /\ \A j \in 1..Len(out) : j # i => out[j].email # out[i].email

\* an input with an invalid entry and an email given twice, in two cases and
\* under two names
C19_Witness ==
    /\ parsed.done
    /\ parsed.list = <<[name |-> "Al", addr |-> "A@X.COM"],
                       [name |-> "Bo", addr |-> "nope"],
                       [name |-> "Bo", addr |-> "a@x.com"]>>
    /\ parsed.recipients = <<[email |-> "a@x.com", name |-> "Al"]>>

\* the index the claim gives a token on a signer list (0-based)
ClaimedIndex(tok, signers) ==
    IF tok.i # NoIndex THEN tok.i
    ELSE IF \E k \in 1..Len(signers) : signers[k].email = tok.email
         THEN (CHOOSE k \in 1..Len(signers) : signers[k].email = tok.email) - 1
         ELSE -1

\* C20: a read or complete that got to the envelope addresses the signer at
\* the token's index, or at the position of the token's email when the token
\* has no index; an index outside the signer list is answered 400 and the
\* envelope is left as it is.
C20_SignerResolution ==
    [][(/\ now' = now
        /\ \/ last'.op = "read" /\ last'.code \in {200, 400}
           \/ last'.op = "complete" /\ last'.file \in Uploads) =>
          LET e == last'.tok.envId
              idx == ClaimedIndex(last'.tok, store[e].signers)
          IN IF idx < 0 \/ idx >= Len(store[e].signers)
             THEN last'.code = 400 /\ store' = store
             ELSE /\ last'.code = 200
                  /\ \A j \in Signers(e) :
                       j # idx + 1 => store'[e].signers[j] = store[e].signers[j]
                  /\ last'.op = "complete" =>
                       /\ store'[e].signers[idx + 1].status = COMPLETED
                       /\ store'[e].signers[idx + 1].completedAt = now
                  /\ last'.op = "read" =>
                       store'[e].signers[idx + 1].status # SENT]_vars

\* a complete with a token without index reached the second signer, found
\* by its email
C20_Witness ==
    /\ last.op = "complete" /\ last.tok = EmailToken /\ last.code = 200
    /\ Len(store) = 1 /\ Len(store[1].signers) = 2
    /\ store[1].signers[2].email = EmailToken.email
    /\ store[1].signers[2].status = COMPLETED
    /\ store[1].signers[1].status = SENT

\* the three cases of a creation request, on its fields
NoTemplateSelected(selected) == selected = <<>>
NoValidRecipient(emails) ==
    \A k \in 1..Len(emails) : ~emailRegexTest(toLowerCase(emails[k].addr))
NoTemplateFile(selected) == \A k \in 1..Len(selected) : ~existsSync(selected[k])

\* C21 as stated: a creation request with no template selected, no valid
\* recipient or no selected template with a template file is answered 400.
C21_RejectedWith400 ==
    [][(last'.op = "create" /\ now' = now) =>
          \A selected \in Selections, emails \in RecipientLists,
             bodyName \in BodyNames, mailFails \in BOOLEAN :
             (/\ Create(selected, emails, bodyName, mailFails)
              /\ \/ NoTemplateSelected(selected)
                 \/ NoValidRecipient(emails)
                 \/ NoTemplateFile(selected)) => last'.code = 400]_vars

\* C21 amended: 400 when no template is selected or no recipient is valid;
\* 404 when templates are selected and a recipient is valid but no selected
\* template has a template file.
C21_RejectionCodes ==
    [][(last'.op = "create" /\ now' = now) =>
          \A selected \in Selections, emails \in RecipientLists,
             bodyName \in BodyNames, mailFails \in BOOLEAN :
             Create(selected, emails, bodyName, mailFails) =>
                 /\ (NoTemplateSelected(selected) \/ NoValidRecipient(emails)) =>
                        (last'.code = 400 /\ store' = store)
                 /\ (/\ ~NoTemplateSelected(selected)
                     /\ ~NoValidRecipient(emails)
                     /\ NoTemplateFile(selected)) =>
                        (last'.code = 404 /\ store' = store)]_vars

\* a creation was answered 404, nothing stored
C21_Witness ==
    last.op = "create" /\ last.code = 404 /\ store = <<>>

\* C22: a signer is COMPLETED only after it was DELIVERED: a signer with
\* completedAt set has deliveredAt set.
C22_CompletedAfterDelivered ==
    \A e \in Envelopes : \A k \in Signers(e) :
        store[e].signers[k].completedAt # NoDate =>
            store[e].signers[k].deliveredAt # NoDate

\* C23: a read or complete with the token of signer i leaves every other
\* signer of the envelope, and every other envelope, as it was.
C23_OtherSignersUntouched ==
    [][(now' = now /\ last'.op \in {"read", "complete"}) =>
          \A e \in Envelopes : \A j \in Signers(e) :
              (e # last'.tok.envId \/ j # last'.tok.i + 1) =>
                  store'[e].signers[j] = store[e].signers[j]]_vars

\* the second signer completed at a later time than the first signer
\* opened its link, and the first signer is as the open left it
C23_Witness ==
    /\ last.op = "complete" /\ last.code = 200 /\ last.tok.i = 1
    /\ Len(store[last.tok.envId].signers) = 2
    /\ store[last.tok.envId].signers[2].completedAt = now
    /\ store[last.tok.envId].signers[1].status = DELIVERED
    /\ store[last.tok.envId].signers[1].deliveredAt < now
    /\ store[last.tok.envId].signers[1].completedAt = NoDate

\* C24: once an envelope is stored no step changes its files, its signedUrl,
\* or a signer's signedUrl or sentAt.
C24_CreationFieldsFixed ==
    [][\A e \in Envelopes :
          /\ store'[e].files = store[e].files
          /\ store'[e].signedUrl = store[e].signedUrl
          /\ \A k \in Signers(e) :
               /\ store'[e].signers[k].signedUrl = store[e].signers[k].signedUrl
               /\ store'[e].signers[k].sentAt = store[e].signers[k].sentAt]_vars

\* an envelope opened, completed and cancelled at a later time than it was
\* created, its first link still the envelope's link
C24_Witness ==
    /\ last.op = "cancel" /\ last.code = 200
    /\ \E e \in Envelopes :
         /\ store[e].documentStatus = VOIDED
         /\ store[e].signedPdf # NoPdf
         /\ store[e].signers[1].deliveredAt # NoDate
         /\ store[e].signers[1].sentAt < now
         /\ store[e].signedUrl = store[e].signers[1].signedUrl
         /\ store[e].signedUrl # NoToken
         /\ store[e].files # <<>>

\* C25: in the single-recipient server a creation request that selects a
\* template whose file exists stores an envelope with documentStatus SENT
\* and files, and is answered with a signing link for it.
C25_SingleCreationStores ==
    [][(last'.op = "create" /\ now' = now) =>
          \A selected \in Selections, bodyName \in BodyNames :
             (/\ CreateSingle(selected, bodyName)
              /\ \E k \in 1..Len(selected) : existsSync(selected[k])) =>
                 /\ last'.code = 200
                 /\ Len(store') = Len(store) + 1
                 /\ store'[Len(store')].documentStatus = SENT
                 /\ store'[Len(store')].files # <<>>
                 /\ jwtVerifyOk(last'.tok, now)
                 /\ verifyJWTSingle(last'.tok, now)._id = Len(store')]_vars

====
